---- MODULE Spec2Model ----
(***************************************************************************)
(* Tool registry and protocol gateway of the MCP traffic-data servers.     *)
(*                                                                         *)
(*   - MCP/mcp-server/minimal_wrapper.py : the JSON-RPC 2.0 handler        *)
(*     (POST /mcp) and the legacy REST handler (POST /mcp/invoke), both    *)
(*     dispatching into TOOL_IMPLEMENTATIONS of MCP/shared/tools.py;       *)
(*   - MCP/toolbox_async.py : the decorator-filled _toolbox_registry and   *)
(*     its manifest, list_available_tools.                                 *)
(*                                                                         *)
(* The server runs on one asyncio event loop: a handler runs without       *)
(* interruption from one await to the next, so each action below is the    *)
(* code between two suspension points.                                     *)
(***************************************************************************)
EXTENDS Integers, FiniteSets, Sequences, TLC

VARIABLES
    pc,         \* per request task: idle / received / await_io / computing / done
    req,        \* per request task: the HTTP request being served
    tool_func,  \* per request task: the function looked up in TOOL_IMPLEMENTATIONS
    invoked,    \* per request task: the implementation whose body has started
    result,     \* per request task: what the implementation returned or raised
    resp,       \* per request task: the HTTP response of the handler
    loop,       \* the tasks (at most one) holding the event loop across a slow section
    db,         \* tools.py module global: TRUE when the Motor client was built
    registry,   \* toolbox_async._toolbox_registry, a dict in insertion order
    listing,    \* what list_available_tools returned since the last registration
    regs,       \* number of decorator applications so far
    registered, \* the names passed to the decorator so far
    registrations,  \* the names passed to the decorator, one per application, in order
    sessions,   \* per server module: its dict "sessions", id -> metadata
    session_id, \* per request task: the local session_id of the handler
    issued,     \* the values str(uuid.uuid4()) has returned so far
    handled,    \* history: the JSON-RPC methods POST /mcp has handled so far
    before,     \* history, per request task: handled when its handler ran
    routes,     \* MCPApplication: the FastAPI routes, path -> wrapped function
    returned,   \* launch_new_server: what each application of the decorator returned
    held,       \* per request task: the kind of value in the document given to json.dumps
    sent        \* per call of call_api_tool: the requests it has sent

vars == <<pc, req, tool_func, invoked, result, resp, loop, db,
          registry, listing, regs, registered, registrations,
          sessions, session_id, issued, handled, before,
          routes, returned, held, sent>>

gatewayVars == <<pc, req, tool_func, invoked, result, resp, loop, db>>
registryVars == <<registry, listing, regs, registered, registrations>>
sessionVars == <<sessions, session_id, issued>>
historyVars == <<handled, before>>
appVars == <<routes, returned, held, sent>>

----------------------------------------------------------------------------
(* Bounds of the model.                                                    *)

NumRequests == 2        \* request tasks that can be in flight together
MaxRegs == 4            \* decorator applications explored
MaxSessions == 3        \* calls of uuid.uuid4() explored

Tasks == 1..NumRequests
None == [t |-> "None"]

----------------------------------------------------------------------------
(* JSON values as Python sees them after request.json().                   *)

JAbsent == [t |-> "absent"]             \* the key is not in the object
JNull == [t |-> "null"]                 \* null / None
JStr(s) == [t |-> "str", s |-> s]
JInt(n) == [t |-> "int", n |-> n]
JList == [t |-> "list"]                 \* a non-empty array
JDict(ks) == [t |-> "dict", keys |-> ks] \* an object with the key set ks

\* dict.get(key): an absent key reads as None
Get(v) == IF v = JAbsent THEN JNull ELSE v

\* a test "if x == ''" in place of "if not x"
Truthy_OnlyEmptyString(v) == v # JStr("")

\* Python truth value, as tested by "if not x"
Truthy(v) ==
    /\ v # JNull
    /\ v # JStr("")
    /\ v # JInt(0)
    /\ v # JDict({})

\* "x in some_dict" raises TypeError for an unhashable x
Hashable(v) == v.t \notin {"list", "dict"}

IsDict(v) == v.t = "dict"

----------------------------------------------------------------------------
(* json.dumps / json.loads on the documents the tools build.               *)
(* A document is a dict; "keys" tells whether its keys are Python ints     *)
(* (the hour index of a profile) or strings.  json.dumps writes int keys   *)
(* as strings, so loads(dumps(d)) need not be d.                           *)

Doc(tag, keys) == [t |-> "doc", tag |-> tag, keys |-> keys]

JText(d) == [t |-> "text", json |-> d]      \* a str holding the JSON text of d

\* json.dumps(document, default=json_encoder), as the tools call it
json_dumps(d) == JText([d EXCEPT !.keys = "str"])

\* json.dumps of data that holds only strings, lists and string-keyed dicts
Content(data) == JText(data)

json_loads(s) == s.json

----------------------------------------------------------------------------
(* tools.py: the tool table and what the implementations do.               *)

Fn(n) == [t |-> "function", name |-> n]

ToolNames ==
    {"get_daily_traffic_profile", "plot_time_series", "get_descriptive_stats",
     "aggregate_time_series", "find_peak_periods"}

\* name -> async function, a module constant that no handler mutates
TOOL_IMPLEMENTATIONS == [n \in ToolNames |-> Fn(n)]

\* a schema list that was not extended when the last tool was added
AVAILABLE_TOOLS_SCHEMA_Stale ==
    <<"get_daily_traffic_profile", "plot_time_series", "get_descriptive_stats",
      "aggregate_time_series">>

\* names advertised by GET /mcp/manifest and tools/list, in order
AVAILABLE_TOOLS_SCHEMA ==
    <<"get_daily_traffic_profile", "plot_time_series", "get_descriptive_stats",
      "aggregate_time_series", "find_peak_periods">>

\* parameters without a default, from the signatures
Required(f) ==
    CASE f.name = "get_daily_traffic_profile" -> {"lane_id", "metric_field"}
      [] f.name = "plot_time_series" ->
            {"collection_name", "metric_field", "id_value"}
      [] f.name = "get_descriptive_stats" ->
            {"collection_name", "metric_field", "id_value"}
      [] f.name = "aggregate_time_series" ->
            {"collection_name", "metric_field", "id_value",
             "start_time", "end_time", "resample_window"}
      [] f.name = "find_peak_periods" ->
            {"collection_name", "metric_field", "id_value",
             "threshold", "start_time", "end_time"}

\* parameters with a default
Optional(f) ==
    IF f.name \in {"plot_time_series", "get_descriptive_stats"}
    THEN {"start_time", "end_time"}
    ELSE {}

\* tool_func(**arguments): Python raises TypeError before the body runs when
\* the arguments are no mapping, lack a required name or carry an unknown one
Binds(f, arguments) ==
    /\ IsDict(arguments)
    /\ Required(f) \subseteq arguments.keys
    /\ arguments.keys \subseteq (Required(f) \cup Optional(f))

Return(v) == [t |-> "return", value |-> v]
Raise(m) == [t |-> "raise", message |-> JStr(m)]

\* what _fetch_data_as_dataframe can hand back once the query has completed
Fetched == {"empty", "no_metric", "data", "error"}

\* the early returns of every tool: no frame, an empty frame, no such column
ToolEarlyReturn(f, fetched) ==
    IF fetched \in {"none", "empty"}
    THEN Return(json_dumps(Doc(IF f.name = "find_peak_periods"
                               THEN "message" ELSE "error", "str")))
    ELSE Return(json_dumps(Doc("error", "str")))

\* the end of a tool that found data: the pandas / matplotlib section, which
\* runs on the event loop, then json.dumps(..., default=json_encoder)
ToolOutcomes(f) ==
    CASE f.name = "get_daily_traffic_profile" ->
            {Return(json_dumps(Doc("profile", "int"))), Raise("TypeError")}
      [] f.name = "plot_time_series" ->
            {Return(json_dumps(Doc("plot", "str"))), Raise("OSError")}
      [] f.name = "get_descriptive_stats" ->
            {Return(json_dumps(Doc("stats", "str"))), Raise("TypeError")}
      [] f.name = "aggregate_time_series" ->
            {Return(json_dumps(Doc("series", "str"))), Raise("ValueError")}
      [] f.name = "find_peak_periods" ->
            {Return(json_dumps(Doc("message", "str"))),
             Return(json_dumps(Doc("peaks", "str"))), Raise("TypeError")}

----------------------------------------------------------------------------
(* minimal_wrapper.py: responses.                                          *)

Msg(text, arg) == [text |-> text, arg |-> arg]

\* fastapi Response(content=json.dumps(data), status_code=...)
Response(status_code, data) ==
    [status_code |-> status_code, content |-> Content(data)]

\* an empty JSON-RPC result in place of the bare 204
NoContent_EmptyResult ==
    [status_code |-> 200,
     content |-> Content([jsonrpc |-> "2.0", result |-> None, id |-> JNull])]

\* Response(status_code=204): no content at all
NoContent == [status_code |-> 204, content |-> None]

\* an error envelope that also carries a null result member
RpcError_WithResult(code, message, id) ==
    [jsonrpc |-> "2.0", result |-> None,
     error |-> [code |-> code, message |-> message], id |-> id]

RpcError(code, message, id) ==
    [jsonrpc |-> "2.0", error |-> [code |-> code, message |-> message],
     id |-> id]

RpcResult(res, id) == [jsonrpc |-> "2.0", result |-> res, id |-> id]

\* what a handler has decided when it stops running: a response, or an
\* await of the looked-up implementation
Respond(r) == [kind |-> "respond", resp |-> r, func |-> None]
Call(f) == [kind |-> "call", resp |-> None, func |-> f]
\* the call itself raised TypeError inside the try block around it
CallRaised(f) == [kind |-> "call_raised", resp |-> None, func |-> f]

GetDefault(v, d) == IF v = JAbsent THEN d ELSE v

EmptyParams ==
    [t |-> "dict", name |-> JAbsent, arguments |-> JAbsent,
     protocolVersion |-> JAbsent]

\* "except json.JSONDecodeError" of mcp_jsonrpc_handler
JsonRpcParseError ==
    Response(400, RpcError(-32700, Msg("Parse error: Invalid JSON", None),
                           JNull))

\* "except Exception as e" of mcp_jsonrpc_handler
JsonRpcUnexpected(e) ==
    Response(500, RpcError(-32603, Msg("Internal error: ", JStr(e)), JNull))

\* the missing tool name reported with HTTP 400
JsonRpcInvalidParams_BadRequest(request_id) ==
    Response(400, RpcError(-32602,
        Msg("Invalid params: tool name required", None), request_id))

\* the error response for a tools/call without a tool name
JsonRpcInvalidParams(request_id) ==
    Response(200, RpcError(-32602,
        Msg("Invalid params: tool name required", None), request_id))

\* an unknown name reported as an invalid request
JsonRpcMethodNotFound_InvalidRequest(what, request_id) ==
    Response(200, RpcError(-32600, Msg("Method not found: ", what),
                           request_id))

\* the error response for an unknown tool name or an unknown method
JsonRpcMethodNotFound(what, request_id) ==
    Response(200, RpcError(-32601, Msg("Method not found: ", what),
                           request_id))

\* "tool_name not in TOOL_IMPLEMENTATIONS", then TOOL_IMPLEMENTATIONS[tool_name]
\* of mcp_jsonrpc_handler: the function, or None for an unknown name
\* a tool table that is only consulted once initialize has been handled
JsonRpcLookup_AfterInitialize(tool_name) ==
    IF "initialize" \in handled /\ tool_name.t = "str"
          /\ tool_name.s \in DOMAIN TOOL_IMPLEMENTATIONS
    THEN TOOL_IMPLEMENTATIONS[tool_name.s]
    ELSE None

JsonRpcLookup(tool_name) ==
    IF tool_name.t = "str" /\ tool_name.s \in DOMAIN TOOL_IMPLEMENTATIONS
    THEN TOOL_IMPLEMENTATIONS[tool_name.s]
    ELSE None

\* the tools/call branch up to the await
JsonRpcToolsCall(params, request_id) ==
    IF ~IsDict(params) THEN Respond(JsonRpcUnexpected("AttributeError"))
    ELSE LET tool_name == Get(params.name)
             tool_arguments == GetDefault(params.arguments, JDict({}))
         IN  IF ~Truthy(tool_name)
             THEN Respond(JsonRpcInvalidParams(request_id))
             ELSE IF ~Hashable(tool_name)
             THEN Respond(JsonRpcUnexpected("TypeError"))
             ELSE IF JsonRpcLookup(tool_name) = None
             THEN Respond(JsonRpcMethodNotFound(tool_name, request_id))
             ELSE LET f == JsonRpcLookup(tool_name)
                  IN  IF Binds(f, tool_arguments)
                      THEN Call(f)
                      ELSE CallRaised(f)

\* mcp_jsonrpc_handler from the parsed body to its first suspension
JsonRpcDispatch(q) ==
    IF q.body = "malformed" THEN Respond(JsonRpcParseError)
    ELSE IF q.body = "undecodable"
    THEN Respond(JsonRpcUnexpected("UnicodeDecodeError"))
    ELSE IF q.body # "object"
    THEN Respond(JsonRpcUnexpected("AttributeError"))
    ELSE LET method == Get(q.method)
             params == GetDefault(q.params, EmptyParams)
             request_id == Get(q.id)
         IN  IF ~Truthy(method)
             THEN Respond(Response(400, RpcError(-32600,
                     Msg("Invalid Request: method required", None),
                     request_id)))
             ELSE IF method = JStr("initialize")
             THEN IF ~IsDict(params)
                  THEN Respond(JsonRpcUnexpected("AttributeError"))
                  ELSE Respond(Response(200, RpcResult(
                          [protocolVersion |->
                              GetDefault(params.protocolVersion, JStr("1.0")),
                           capabilities |-> "tools",
                           serverInfo |-> "MongoToolServer"],
                          request_id)))
             ELSE IF method = JStr("notifications/initialized")
             THEN Respond(NoContent)
             ELSE IF method = JStr("tools/list")
             THEN Respond(Response(200, RpcResult(
                     [tools |-> AVAILABLE_TOOLS_SCHEMA], request_id)))
             ELSE IF method = JStr("tools/call")
             THEN JsonRpcToolsCall(params, request_id)
             ELSE Respond(JsonRpcMethodNotFound(method, request_id))

\* tools/call without the try block around the call: the exception reaches
\* the server, which answers with its own plain 500 page
JsonRpcToolResponse_NoExcept(q, outcome) ==
    IF outcome.t = "return"
    THEN Response(200, RpcResult(
            [content |-> <<[type |-> "text", text |-> outcome.value]>>],
            Get(q.id)))
    ELSE Response(500, [unhandled |-> "Internal Server Error"])

\* tools/call decoding the returned text as /mcp/invoke does
JsonRpcToolResponse_Decoded(q, outcome) ==
    IF outcome.t = "return"
    THEN Response(200, RpcResult(
            [content |-> <<[type |-> "text",
                            text |-> json_loads(outcome.value)]>>],
            Get(q.id)))
    ELSE Response(200, RpcError(-32603,
            Msg("Internal error: ", outcome.message), Get(q.id)))

\* the response of tools/call once the implementation has returned or raised
JsonRpcToolResponse(q, outcome) ==
    IF outcome.t = "return"
    THEN Response(200, RpcResult(
            [content |-> <<[type |-> "text", text |-> outcome.value]>>],
            Get(q.id)))
    ELSE Response(200, RpcError(-32603,
            Msg("Internal error: ", outcome.message), Get(q.id)))

\* "except json.JSONDecodeError" of invoke_tool
RestParseError ==
    Response(400, [error |-> Msg("Invalid JSON in request body", None)])

\* "except Exception as e" of invoke_tool
RestUnexpected(e) ==
    Response(500, [error |-> Msg("Internal server error: ", JStr(e))])

\* the unknown tool reported as a bad request
RestNotFound_BadRequest(tool_name) ==
    Response(400, [error |-> Msg("Tool '%s' not found", tool_name)])

\* the response for an unknown tool name
RestNotFound(tool_name) ==
    Response(404, [error |-> Msg("Tool '%s' not found", tool_name)])

\* /mcp/invoke looking names up in a table of its own that lacks a tool
RestLookup_OwnTable(tool_name) ==
    IF tool_name.t = "str"
        /\ tool_name.s \in DOMAIN TOOL_IMPLEMENTATIONS \ {"plot_time_series"}
    THEN TOOL_IMPLEMENTATIONS[tool_name.s]
    ELSE None

\* "tool_name not in TOOL_IMPLEMENTATIONS", then TOOL_IMPLEMENTATIONS[tool_name]
\* of invoke_tool: the function, or None for an unknown name
RestLookup(tool_name) ==
    IF tool_name.t = "str" /\ tool_name.s \in DOMAIN TOOL_IMPLEMENTATIONS
    THEN TOOL_IMPLEMENTATIONS[tool_name.s]
    ELSE None

\* invoke_tool from the parsed body to its first suspension
RestDispatch(q) ==
    IF q.body = "malformed" THEN Respond(RestParseError)
    ELSE IF q.body = "undecodable"
    THEN Respond(RestUnexpected("UnicodeDecodeError"))
    ELSE IF q.body # "object" THEN Respond(RestUnexpected("AttributeError"))
    ELSE LET tool_name == Get(q.tool)
             tool_input == GetDefault(q.input, JDict({}))
         IN  IF ~Truthy(tool_name)
             THEN Respond(Response(400,
                     [error |-> Msg("Tool name required in 'tool' field",
                                    None)]))
             ELSE IF ~Hashable(tool_name)
             THEN Respond(RestUnexpected("TypeError"))
             ELSE IF RestLookup(tool_name) = None
             THEN Respond(RestNotFound(tool_name))
             ELSE LET f == RestLookup(tool_name)
                  IN  IF Binds(f, tool_input) THEN Call(f) ELSE CallRaised(f)

\* /mcp/invoke forgetting status_code=500 on the error path
RestToolResponse_ErrorAs200(q, outcome) ==
    IF outcome.t = "return"
    THEN Response(200, [result |-> json_loads(outcome.value)])
    ELSE Response(200, [error |-> Msg("Tool execution failed: ",
                                      outcome.message)])

\* the response of /mcp/invoke once the implementation has returned or raised;
\* json.loads(result) sits inside the same try block as the call
RestToolResponse(q, outcome) ==
    IF outcome.t = "return"
    THEN IF outcome.value.t = "text"
         THEN Response(200, [result |-> json_loads(outcome.value)])
         ELSE Response(500, [error |-> Msg("Tool execution failed: ",
                                           JStr("JSONDecodeError"))])
    ELSE Response(500, [error |-> Msg("Tool execution failed: ",
                                      outcome.message)])

ToolResponse(q, outcome) ==
    IF q.adapter = "jsonrpc"
    THEN JsonRpcToolResponse(q, outcome)
    ELSE RestToolResponse(q, outcome)

----------------------------------------------------------------------------
(* Requests.                                                               *)

\* what request.json() makes of the bytes of a body: "object" and "array"
\* are JSON texts; "malformed" is text json.loads rejects with
\* JSONDecodeError; "undecodable" is bytes that are no UTF-8, which
\* json.loads rejects with UnicodeDecodeError before it parses anything
NoJsonBodies == {"malformed", "undecodable"}

Ids == {JAbsent, JInt(7), JStr("req-1")}

Methods ==
    {JAbsent, JNull, JStr(""), JInt(7), JStr("initialize"),
     JStr("notifications/initialized"), JStr("tools/list"),
     JStr("tools/call"), JStr("resources/list")}

NameValues ==
    {JAbsent, JNull, JStr(""), JInt(0), JInt(7), JList, JStr("missing_tool")}
        \cup {JStr(n) : n \in ToolNames}

ArgValues ==
    {JAbsent, JNull, JList, JDict({}), JDict({"bogus"})}
        \cup {JDict(Required(Fn(n))) : n \in ToolNames}
        \cup {JDict(Required(Fn(n)) \cup Optional(Fn(n))) : n \in ToolNames}

Params(name, arguments, protocolVersion) ==
    [t |-> "dict", name |-> name, arguments |-> arguments,
     protocolVersion |-> protocolVersion]

JsonRpcRequest(body, method, params, id) ==
    [adapter |-> "jsonrpc", body |-> body, method |-> method,
     params |-> params, id |-> id]

RestRequest(body, tool, input) ==
    [adapter |-> "rest", body |-> body, tool |-> tool, input |-> input]

\* every request a client can send to POST /mcp
JsonRpcRequests ==
    {JsonRpcRequest(b, JAbsent, JAbsent, JAbsent) :
        b \in NoJsonBodies \cup {"array"}}
        \cup {JsonRpcRequest("object", m, p, i) :
                m \in Methods,
                p \in {JAbsent, JNull, JList, EmptyParams,
                       Params(JAbsent, JAbsent, JStr("2024-11-05"))},
                i \in Ids}
        \cup {JsonRpcRequest("object", JStr("tools/call"),
                             Params(n, a, JAbsent), i) :
                n \in NameValues, a \in ArgValues, i \in Ids}
        \cup {JsonRpcRequest("object", JStr("notifications/initialized"),
                             Params(n, JAbsent, JAbsent), i) :
                n \in NameValues, i \in Ids}

\* every request a client can send to POST /mcp/invoke
RestRequests ==
    {RestRequest(b, JAbsent, JAbsent) : b \in NoJsonBodies \cup {"array"}}
        \cup {RestRequest("object", n, a) : n \in NameValues, a \in ArgValues}

\* GET /mcp/manifest: the handler reads nothing of the request
ManifestRequest == [adapter |-> "manifest"]

Requests == JsonRpcRequests \cup RestRequests \cup {ManifestRequest}

\* the requests of the concurrent workload: calls of two registered tools and
\* of an unknown one, through both adapters
ConcArgs == JDict({"collection_name", "metric_field", "id_value"})

ConcNames ==
    {JStr("plot_time_series"), JStr("get_descriptive_stats"),
     JStr("missing_tool")}

ConcRequests ==
    {JsonRpcRequest("object", JStr("tools/call"),
                    Params(n, ConcArgs, JAbsent), JInt(7)) : n \in ConcNames}
        \cup {RestRequest("object", n, ConcArgs) : n \in ConcNames}
        \cup {JsonRpcRequest("object", JStr("tools/list"), JAbsent, JInt(7)),
              ManifestRequest}

----------------------------------------------------------------------------
(* The gateway as a state machine.                                         *)

GatewayInit ==
    /\ pc = [r \in Tasks |-> "idle"]
    /\ req = [r \in Tasks |-> None]
    /\ tool_func = [r \in Tasks |-> None]
    /\ invoked = [r \in Tasks |-> None]
    /\ result = [r \in Tasks |-> None]
    /\ resp = [r \in Tasks |-> None]
    /\ loop = {}
    /\ db \in BOOLEAN

RegistryInit ==
    /\ registry = <<>>
    /\ listing = None
    /\ regs = 0
    /\ registered = {}
    /\ registrations = <<>>

\* both modules start with "sessions = {}"
SessionInit ==
    /\ sessions = [m \in {"compatible_server", "minimal_wrapper"} |-> <<>>]
    /\ session_id = [r \in Tasks |-> None]
    /\ issued = {}

\* nothing has been handled when the server starts
HistoryInit ==
    /\ handled = {}
    /\ before = [r \in Tasks |-> {}]

\* held[r] before the tool of task r has built a document
NoValue == "nothing"

\* no route before launch_new_server has run, no call in progress
AppInit ==
    /\ routes = <<>>
    /\ returned = <<>>
    /\ held = [r \in Tasks |-> NoValue]
    /\ sent = [r \in Tasks |-> 0]

Init == GatewayInit /\ RegistryInit /\ SessionInit /\ HistoryInit /\ AppInit

\* a request arrives and a task is created for it
Receive(r, q) ==
    /\ pc[r] = "idle"
    /\ pc' = [pc EXCEPT ![r] = "received"]
    /\ req' = [req EXCEPT ![r] = q]
    /\ UNCHANGED <<tool_func, invoked, result, resp, loop, db, registryVars,
                   appVars, sessionVars, historyVars>>

\* the response s reports a failure: an HTTP error status or an error member
IsErrorResponse(s) ==
    \/ s.status_code >= 400
    \/ /\ s.content # None
       /\ s.content.t = "text"
       /\ "error" \in DOMAIN json_loads(s.content)

\* a failure that takes the process down: every request in flight ends with
\* the failing one
Finish_AbortsOthers(r, s) ==
    IF IsErrorResponse(s)
    THEN /\ pc' = [t \in Tasks |-> IF pc[t] = "idle" THEN "idle" ELSE "done"]
         /\ resp' = [t \in Tasks |-> IF pc[t] = "idle" THEN resp[t] ELSE s]
    ELSE /\ pc' = [pc EXCEPT ![r] = "done"]
         /\ resp' = [resp EXCEPT ![r] = s]

\* the handler ends with the response s
Finish(r, s) ==
    /\ pc' = [pc EXCEPT ![r] = "done"]
    /\ resp' = [resp EXCEPT ![r] = s]

\* a blocking driver call in place of the awaited one: the task keeps the
\* event loop while the query runs
LoopWhileAwaiting_Blocking(r) == {r}

\* who holds the event loop once task r waits in "await cursor.to_list(...)":
\* Motor's cursor is awaitable, the task yields and the loop is free
LoopWhileAwaiting(r) == {}

\* a handler runs from the parsed body up to its response or to the first
\* suspension inside the awaited implementation (d is what it decided)
Enter(r, d) ==
    /\ tool_func' = [tool_func EXCEPT ![r] = d.func]
    /\ CASE d.kind = "respond" ->
              /\ Finish(r, d.resp)
              /\ UNCHANGED <<invoked, result, loop>>
         [] d.kind = "call_raised" ->
              /\ Finish(r, ToolResponse(req[r], Raise("TypeError")))
              /\ result' = [result EXCEPT ![r] = Raise("TypeError")]
              /\ UNCHANGED <<invoked, loop>>
         [] d.kind = "call" /\ db ->
              \* every function of the table is a coroutine function, so the
              \* handler awaits it; its body runs up to
              \* "await cursor.to_list(length=None)"
              /\ pc' = [pc EXCEPT ![r] = "await_io"]
              /\ invoked' = [invoked EXCEPT ![r] = d.func]
              /\ loop' = LoopWhileAwaiting(r)
              /\ UNCHANGED <<result, resp>>
         [] d.kind = "call" /\ ~db ->
              \* "if db is None: return None": the tool returns without
              \* ever suspending
              /\ Finish(r, ToolResponse(req[r],
                                        ToolEarlyReturn(d.func, "none")))
              /\ invoked' = [invoked EXCEPT ![r] = d.func]
              /\ result' = [result EXCEPT ![r] =
                                ToolEarlyReturn(d.func, "none")]
              /\ UNCHANGED loop
    /\ UNCHANGED <<req, db, registryVars, appVars, sessionVars>>

\* the method of the request q when it is one the dispatcher knows
Handled(q) ==
    IF q.body = "object"
          /\ q.method \in {JStr("initialize"),
                            JStr("notifications/initialized"),
                            JStr("tools/list"), JStr("tools/call")}
    THEN {q.method.s}
    ELSE {}

mcp_jsonrpc_handler(r) ==
    /\ pc[r] = "received"
    /\ req[r].adapter = "jsonrpc"
    /\ loop = {}
    /\ Enter(r, JsonRpcDispatch(req[r]))
    /\ handled' = handled \cup Handled(req[r])
    /\ before' = [before EXCEPT ![r] = handled]

invoke_tool(r) ==
    /\ pc[r] = "received"
    /\ req[r].adapter = "rest"
    /\ loop = {}
    /\ Enter(r, RestDispatch(req[r]))
    /\ UNCHANGED historyVars

\* the document of GET /mcp/manifest
Manifest ==
    [name |-> "MongoToolServer", description |-> "mongodb tools",
     tools |-> AVAILABLE_TOOLS_SCHEMA]

\* GET /mcp/manifest: no await, no lookup, always 200 with the manifest
get_manifest(r) ==
    /\ pc[r] = "received"
    /\ req[r].adapter = "manifest"
    /\ loop = {}
    /\ Finish(r, Response(200, Manifest))
    /\ UNCHANGED <<req, tool_func, invoked, result, loop, db, registryVars,
                   appVars, sessionVars, historyVars>>

\* the query completes and the event loop resumes the implementation: it
\* either ends at once (error, early return) or enters its pandas section
fetch_data_as_dataframe(r, fetched) ==
    /\ pc[r] = "await_io"
    /\ loop \subseteq {r}
    /\ IF fetched = "data"
       THEN /\ pc' = [pc EXCEPT ![r] = "computing"]
            /\ loop' = {r}
            /\ UNCHANGED <<result, resp>>
       ELSE LET outcome == IF fetched = "error"
                           THEN Raise("ServerSelectionTimeoutError")
                           ELSE ToolEarlyReturn(tool_func[r], fetched)
            IN  /\ Finish(r, ToolResponse(req[r], outcome))
                /\ result' = [result EXCEPT ![r] = outcome]
                /\ loop' = {}
    /\ UNCHANGED <<req, tool_func, invoked, db, registryVars, appVars,
                   sessionVars, historyVars>>

\* the synchronous section ends: the implementation returns or raises and
\* the handler builds its response
tool_return(r, outcome) ==
    /\ pc[r] = "computing"
    /\ loop = {r}
    /\ outcome \in ToolOutcomes(tool_func[r])
    /\ Finish(r, ToolResponse(req[r], outcome))
    /\ result' = [result EXCEPT ![r] = outcome]
    /\ loop' = {}
    /\ UNCHANGED <<req, tool_func, invoked, db, registryVars, appVars,
                   sessionVars, historyVars>>

\* the response has been written; the task ends
Close(r) ==
    /\ pc[r] = "done"
    /\ pc' = [pc EXCEPT ![r] = "idle"]
    /\ req' = [req EXCEPT ![r] = None]
    /\ tool_func' = [tool_func EXCEPT ![r] = None]
    /\ invoked' = [invoked EXCEPT ![r] = None]
    /\ result' = [result EXCEPT ![r] = None]
    /\ resp' = [resp EXCEPT ![r] = None]
    /\ session_id' = [session_id EXCEPT ![r] = None]
    /\ before' = [before EXCEPT ![r] = {}]
    /\ held' = [held EXCEPT ![r] = NoValue]
    /\ sent' = [sent EXCEPT ![r] = 0]
    /\ UNCHANGED <<loop, db, registryVars, sessions, issued, handled, routes,
                   returned>>

AnyOutcome == UNION {ToolOutcomes(Fn(n)) : n \in ToolNames}

\* one request at a time, every request
Next ==
    \/ \E q \in Requests : Receive(1, q)
    \/ mcp_jsonrpc_handler(1)
    \/ invoke_tool(1)
    \/ get_manifest(1)
    \/ \E fetched \in Fetched : fetch_data_as_dataframe(1, fetched)
    \/ \E outcome \in AnyOutcome : tool_return(1, outcome)
    \/ Close(1)

Spec == Init /\ [][Next]_vars

\* NumRequests requests in flight, the concurrent workload
NextConc ==
    \E r \in Tasks :
        \/ \E q \in ConcRequests : Receive(r, q)
        \/ mcp_jsonrpc_handler(r)
        \/ invoke_tool(r)
        \/ get_manifest(r)
        \/ \E fetched \in Fetched : fetch_data_as_dataframe(r, fetched)
        \/ \E outcome \in AnyOutcome : tool_return(r, outcome)
        \/ Close(r)

SpecConc == Init /\ [][NextConc]_vars

----------------------------------------------------------------------------
(* toolbox_async.py: the decorator-filled registry and its manifest.       *)

Empty == [t |-> "empty"]        \* inspect.Parameter.empty

Parameter(name, annotation, default) ==
    [name |-> name, annotation |-> annotation, default |-> default]

RegFunctions ==
    {Fn("list_available_tools"), Fn("get_lanes_by_metric"),
     Fn("generate_timeseries_chart_data")}

\* inspect.signature(func).parameters
Signature(f) ==
    CASE f.name = "list_available_tools" ->
            <<Parameter("db_client", "AsyncIOMotorClient", Empty)>>
      [] f.name = "get_lanes_by_metric" ->
            <<Parameter("db_client", "AsyncIOMotorClient", Empty),
              Parameter("metric", "Literal", Empty),
              Parameter("order", "Literal", JStr("highest")),
              Parameter("top_n", "int", JInt(5))>>
      [] f.name = "generate_timeseries_chart_data" ->
            <<Parameter("db_client", "AsyncIOMotorClient", Empty),
              Parameter("metric", "Literal", Empty),
              Parameter("ids", "List", Empty),
              Parameter("start_time_iso", "Optional", JNull),
              Parameter("end_time_iso", "Optional", JNull)>>

RegNames == {"list_available_tools", "get_lanes_by_metric", "count_all_lanes"}

RegDescriptions == {"Returns a JSON-encoded list", "Ranks lanes by a metric"}

\* position of key k in the dict d (0 when absent)
IndexOf(d, k) ==
    IF \E i \in 1..Len(d) : d[i].name = k
    THEN CHOOSE i \in 1..Len(d) : d[i].name = k
    ELSE 0

\* an assignment that, like dict.setdefault, keeps the value of an existing key
DictSet_KeepFirst(d, k, v) ==
    IF IndexOf(d, k) = 0 THEN Append(d, v) ELSE d

\* an assignment that, like OrderedDict.move_to_end, puts an existing key last
DictSet_MoveToEnd(d, k, v) ==
    Append(SelectSeq(d, LAMBDA e : e.name # k), v)

\* an assignment that puts the new value of an existing key first
DictSet_MoveToFront(d, k, v) ==
    IF IndexOf(d, k) = 0
    THEN Append(d, v)
    ELSE <<v>> \o SelectSeq(d, LAMBDA e : e.name # k)

\* a registry kept as a list that the decorator appends to
DictSet_AlwaysAppend(d, k, v) == Append(d, v)

\* d[k] = v on a Python dict: a new key goes to the end, an existing key
\* keeps its place and takes the new value
DictSet(d, k, v) ==
    IF IndexOf(d, k) = 0
    THEN Append(d, v)
    ELSE [d EXCEPT ![IndexOf(d, k)] = v]

\* the decorator returned by tool(name, description), applied to func
tool(name, description, func) ==
    /\ regs < MaxRegs
    /\ registry' = DictSet(registry, name,
                           [function |-> func, name |-> name,
                            description |-> description,
                            parameters |-> Signature(func)])
    /\ regs' = regs + 1
    /\ registered' = registered \cup {name}
    /\ registrations' = Append(registrations, name)
    /\ listing' = None
    /\ UNCHANGED <<gatewayVars, sessionVars, historyVars, appVars>>

\* a manifest that leaves the default of a required parameter null
ManifestParameter_NullDefault(p) ==
    [name |-> p.name, type |-> p.annotation,
     default |-> IF p.default # Empty THEN p.default ELSE JNull]

\* one entry of the "parameters" list of the manifest
ManifestParameter(p) ==
    [name |-> p.name, type |-> p.annotation,
     default |-> IF p.default # Empty THEN p.default ELSE JStr("REQUIRED")]

\* the list built by the loop of list_available_tools over the registry d
ManifestTools(d) ==
    [i \in 1..Len(d) |->
        LET shown == SelectSeq(d[i].parameters,
                               LAMBDA p : p.name # "db_client")
        IN  [name |-> d[i].name,
             description |-> d[i].description,
             parameters |-> [j \in 1..Len(shown) |->
                                ManifestParameter(shown[j])]]]

list_available_tools ==
    /\ listing' = Content(ManifestTools(registry))
    /\ UNCHANGED <<registry, regs, registered, registrations, gatewayVars,
                   sessionVars, historyVars, appVars>>

\* agent_main.get_tools_from_server: the "required" list it builds for one
\* entry of the manifest it has fetched and decoded
required(tool_info) ==
    LET marked == SelectSeq(tool_info.parameters,
                            LAMBDA p : p.default = JStr("REQUIRED"))
    IN  [j \in 1..Len(marked) |-> marked[j].name]

NextRegistry ==
    \/ \E name \in RegNames, description \in RegDescriptions,
          func \in RegFunctions : tool(name, description, func)
    \/ list_available_tools

SpecRegistry == Init /\ [][NextRegistry]_vars

----------------------------------------------------------------------------
(* Properties of the gateway.                                              *)

Done(r) == pc[r] = "done"

\* the JSON document of a response
Body(r) == json_loads(resp[r].content)

\* r serves a tools/call whose params are an object
IsToolsCall(r) ==
    /\ req[r] # None
    /\ req[r].adapter = "jsonrpc"
    /\ req[r].body = "object"
    /\ req[r].method = JStr("tools/call")
    /\ IsDict(GetDefault(req[r].params, EmptyParams))

ToolsCallName(r) == GetDefault(req[r].params, EmptyParams).name

\* r serves a POST /mcp/invoke whose body is an object
IsInvoke(r) ==
    /\ req[r] # None
    /\ req[r].adapter = "rest"
    /\ req[r].body = "object"

IsString(v) == v.t = "str"

\* C1 as stated: every tool name that is not in the tool table is answered
\* with JSON-RPC error -32601, respectively with HTTP 404 and the body
\* {"error": "Tool '<name>' not found"}, and no implementation is invoked.
C1_UnknownToolAnyName ==
    \A r \in Tasks :
        /\ (Done(r) /\ IsToolsCall(r) /\ IsString(ToolsCallName(r))
                /\ ToolsCallName(r).s \notin ToolNames)
            => /\ "error" \in DOMAIN Body(r)
               /\ Body(r).error.code = -32601
               /\ invoked[r] = None
        /\ (Done(r) /\ IsInvoke(r) /\ IsString(req[r].tool)
                /\ req[r].tool.s \notin ToolNames)
            => /\ resp[r].status_code = 404
               /\ Body(r) = [error |-> Msg("Tool '%s' not found", req[r].tool)]
               /\ invoked[r] = None

\* C1 amended: every non-empty string that is not in the tool table is
\* answered with JSON-RPC error -32601, respectively with HTTP 404 and the
\* body {"error": "Tool '<name>' not found"}, and no implementation is invoked.
C1_UnknownTool ==
    \A r \in Tasks :
        /\ (Done(r) /\ IsToolsCall(r) /\ IsString(ToolsCallName(r))
                /\ ToolsCallName(r).s # ""
                /\ ToolsCallName(r).s \notin ToolNames)
            => /\ "error" \in DOMAIN Body(r)
               /\ Body(r).error.code = -32601
               /\ invoked[r] = None
        /\ (Done(r) /\ IsInvoke(r) /\ IsString(req[r].tool)
                /\ req[r].tool.s # ""
                /\ req[r].tool.s \notin ToolNames)
            => /\ resp[r].status_code = 404
               /\ Body(r) = [error |-> Msg("Tool '%s' not found", req[r].tool)]
               /\ invoked[r] = None

C1_Witness ==
    \E r \in Tasks :
        /\ Done(r) /\ IsInvoke(r)
        /\ req[r].tool = JStr("missing_tool")
        /\ resp[r].status_code = 404

\* C2: when the implementation raises during tools/call or /mcp/invoke the
\* handler still answers: JSON-RPC error -32603 with the exception's message,
\* respectively HTTP 500 with an error body carrying it; nothing escapes.
C2_RaiseIsAnswered ==
    \A r \in Tasks :
        (result[r] # None /\ result[r].t = "raise")
            => /\ Done(r)
               /\ resp[r] # None
               /\ "error" \in DOMAIN Body(r)
               /\ IF req[r].adapter = "jsonrpc"
                  THEN /\ Body(r).error.code = -32603
                       /\ Body(r).error.message.arg = result[r].message
                  ELSE /\ resp[r].status_code = 500
                       /\ Body(r).error.arg = result[r].message

C2_Witness ==
    \E r \in Tasks :
        /\ Done(r) /\ IsToolsCall(r)
        /\ invoked[r] # None
        /\ result[r] = Raise("OSError")
        /\ Body(r).error.code = -32603

\* C3: every response of the JSON-RPC handler other than the 204 reply to
\* notifications/initialized carries the id of the request it answers.
C3_IdEchoed ==
    \A r \in Tasks :
        (Done(r) /\ req[r].adapter = "jsonrpc" /\ resp[r] # NoContent)
            => Body(r).id = Get(req[r].id)

\* C4: a request whose method is notifications/initialized is answered with
\* HTTP 204 and no body, and never with a JSON-RPC envelope, whatever params
\* or id it carries.
C4_NotificationNoBody ==
    \A r \in Tasks :
        (Done(r) /\ req[r].adapter = "jsonrpc" /\ req[r].body = "object"
            /\ req[r].method = JStr("notifications/initialized"))
            => /\ resp[r].status_code = 204
               /\ resp[r].content = None

C4_Witness ==
    \E r \in Tasks :
        /\ Done(r) /\ req[r].adapter = "jsonrpc" /\ req[r].body = "object"
        /\ req[r].method = JStr("notifications/initialized")
        /\ req[r].params = JNull
        /\ req[r].id = JInt(7)
        /\ resp[r].status_code = 204

C7_ResultIsTextContent ==
    \A r \in Tasks :
        (Done(r) /\ IsToolsCall(r) /\ result[r] # None
            /\ result[r].t = "return")
            => /\ resp[r].status_code = 200
               /\ DOMAIN Body(r) = {"jsonrpc", "result", "id"}
               /\ Body(r).result =
                      [content |-> <<[type |-> "text",
                                      text |-> result[r].value]>>]
               /\ Body(r).id = Get(req[r].id)

C7_Witness ==
    \E r \in Tasks :
        /\ Done(r) /\ IsToolsCall(r)
        /\ invoked[r] = Fn("get_daily_traffic_profile")
        /\ result[r] = Return(JText(Doc("profile", "str")))
        /\ req[r].id = JStr("req-1")
        /\ Body(r).result.content[1].text = JText(Doc("profile", "str"))

\* C8: for a registered tool named in POST /mcp/invoke the response is HTTP
\* 200 with {result: <the decoded value>} exactly when the implementation
\* returns without raising, and HTTP 500 with {error: <message>} exactly when
\* it raises.
C8_InvokeOutcome ==
    \A r \in Tasks :
        (Done(r) /\ IsInvoke(r) /\ tool_func[r] # None)
            => /\ result[r] # None
               /\ (result[r].t = "return")
                    <=> /\ resp[r].status_code = 200
                        /\ DOMAIN Body(r) = {"result"}
               /\ (result[r].t = "return")
                    => Body(r).result = json_loads(result[r].value)
               /\ (result[r].t = "raise")
                    <=> /\ resp[r].status_code = 500
                        /\ DOMAIN Body(r) = {"error"}
               /\ (result[r].t = "raise")
                    => Body(r).error.arg = result[r].message

C8_Witness ==
    \E r \in Tasks :
        /\ Done(r) /\ IsInvoke(r)
        /\ invoked[r] = Fn("find_peak_periods")
        /\ result[r] = Return(JText(Doc("peaks", "str")))
        /\ resp[r].status_code = 200
        /\ Body(r) = [result |-> Doc("peaks", "str")]

----------------------------------------------------------------------------
(* Properties of concurrent requests.                                      *)

\* the tool name a request carries
RequestedName(r) ==
    IF req[r].adapter = "jsonrpc" THEN ToolsCallName(r) ELSE req[r].tool

\* a and b are requests for two different registered tools
DifferentTools(a, b) ==
    /\ a # b
    /\ req[a] # None /\ req[b] # None
    /\ IsToolsCall(a) \/ IsInvoke(a)
    /\ IsToolsCall(b) \/ IsInvoke(b)
    /\ IsString(RequestedName(a)) /\ RequestedName(a).s \in ToolNames
    /\ IsString(RequestedName(b)) /\ RequestedName(b).s \in ToolNames
    /\ RequestedName(a) # RequestedName(b)

\* the next step of the task of b: its handler starts, or its query completes
TaskStep(b) ==
    \/ mcp_jsonrpc_handler(b)
    \/ invoke_tool(b)
    \/ \E fetched \in Fetched : fetch_data_as_dataframe(b, fetched)

\* C6 as stated: while the implementation of tool A is running, however slow,
\* the request for another tool B can always take its next step.
C6_NeverDelayed ==
    \A a \in Tasks, b \in Tasks :
        (DifferentTools(a, b)
            /\ pc[a] \in {"await_io", "computing"}
            /\ pc[b] \in {"received", "await_io"})
            => ENABLED TaskStep(b)

\* C6 amended: while the implementation of tool A is suspended at its awaited
\* database query, however long that takes, the request for another tool B
\* can take its next step (unless a third task occupies the event loop).
C6_AwaitDoesNotDelay ==
    \A a \in Tasks, b \in Tasks :
        (DifferentTools(a, b)
            /\ pc[a] = "await_io"
            /\ pc[b] \in {"received", "await_io"}
            /\ loop \subseteq {a})
            => ENABLED TaskStep(b)

C6_Witness ==
    \E a \in Tasks, b \in Tasks :
        /\ DifferentTools(a, b)
        /\ pc[a] = "await_io"
        /\ Done(b)
        /\ invoked[b] # None
        /\ result[b] # None /\ result[b].t = "return"

\* the handler of r has looked the tool name up
LookedUp(r) == pc[r] \in {"await_io", "computing", "done"}

\* C9: both adapters use one tool table: a name is accepted by tools/call if
\* and only if it is accepted by /mcp/invoke, and for an accepted name both
\* hold the same implementation.
C9_SameTable ==
    \A a \in Tasks, b \in Tasks :
        (LookedUp(a) /\ LookedUp(b) /\ IsToolsCall(a) /\ IsInvoke(b)
            /\ ToolsCallName(a) = req[b].tool)
            => /\ (tool_func[a] # None) <=> (tool_func[b] # None)
               /\ tool_func[a] = tool_func[b]
               /\ (invoked[a] # None /\ invoked[b] # None)
                    => invoked[a] = invoked[b]

C9_Witness ==
    \E a \in Tasks, b \in Tasks :
        /\ LookedUp(a) /\ LookedUp(b) /\ IsToolsCall(a) /\ IsInvoke(b)
        /\ ToolsCallName(a) = JStr("plot_time_series")
        /\ req[b].tool = JStr("plot_time_series")
        /\ invoked[a] = Fn("plot_time_series")
        /\ invoked[b] = Fn("plot_time_series")

----------------------------------------------------------------------------
(* Properties of the registry.                                             *)

\* the entries of the manifest m that carry the name n
EntriesNamed(m, n) == {i \in 1..Len(m) : m[i].name = n}

\* C10: after any sequence of registrations the manifest holds exactly one
\* entry for each registered name and none for any other name, and a listing
\* that follows a listing with no registration between returns the same text.
C10_ManifestExact ==
    /\ [](listing # None =>
            LET m == json_loads(listing)
            IN  /\ \A n \in registered : Cardinality(EntriesNamed(m, n)) = 1
                /\ \A i \in 1..Len(m) : m[i].name \in registered)
    /\ [][(listing # None /\ listing' # None) => listing' = listing]_vars

C10_Witness ==
    /\ listing # None
    /\ regs = 3
    /\ Cardinality(registered) = 2
    /\ Len(json_loads(listing)) = 2

----------------------------------------------------------------------------
(* Discovery against invocation.                                           *)

\* r serves a discovery request: GET /mcp/manifest or tools/list
IsManifest(r) == req[r] # None /\ req[r].adapter = "manifest"

IsToolsList(r) ==
    /\ req[r] # None
    /\ req[r].adapter = "jsonrpc"
    /\ req[r].body = "object"
    /\ req[r].method = JStr("tools/list")

\* the tool names a discovery response advertises
AdvertisedNames(r) ==
    LET tools == IF IsManifest(r) THEN Body(r).tools ELSE Body(r).result.tools
    IN  {tools[i] : i \in DOMAIN tools}

\* r serves a call, through either adapter, that names a tool by a string
IsNamedCall(r) ==
    /\ IsToolsCall(r) \/ IsInvoke(r)
    /\ IsString(RequestedName(r))
    /\ Truthy(RequestedName(r))

----------------------------------------------------------------------------
(* The order of the manifest.                                              *)

\* the registrations at which a name was registered for the first time
FirstRegistration(n) ==
    CHOOSE i \in 1..Len(registrations) :
        /\ registrations[i] = n
        /\ \A j \in 1..(i - 1) : registrations[j] # n

\* C12 as stated: if tool a was registered before tool b, a's entry precedes
\* b's entry in every manifest produced afterwards, for every two
\* registrations of different names.
C12_RegisteredBefore ==
    listing # None =>
        LET m == json_loads(listing)
        IN  \A i \in 1..Len(registrations), j \in 1..Len(registrations) :
                (i < j /\ registrations[i] # registrations[j]) =>
                    IndexOf(m, registrations[i]) < IndexOf(m, registrations[j])

\* C12, amended: the manifest lists the tools in the order of their first
\* registration: if the first registration of tool a came before the first
\* registration of tool b, a's entry precedes b's entry in every manifest
\* produced afterwards; registering a name again does not move its entry.
C12_FirstRegistrationOrder ==
    listing # None =>
        LET m == json_loads(listing)
        IN  \A a \in registered, b \in registered :
                FirstRegistration(a) < FirstRegistration(b) =>
                    /\ IndexOf(m, a) > 0
                    /\ IndexOf(m, a) < IndexOf(m, b)

C12_Witness ==
    /\ listing # None
    /\ \E i \in 1..Len(registrations), j \in 1..Len(registrations),
          k \in 1..Len(registrations) :
            /\ i < j /\ j < k
            /\ registrations[i] = registrations[k]
            /\ registrations[i] # registrations[j]

----------------------------------------------------------------------------
(* Required and defaulted parameters.                                      *)

\* the entries of the manifest parameter list ps that carry the name n
ParametersNamed(ps, n) == {j \in 1..Len(ps) : ps[j].name = n}

\* C13: in the manifest produced by list_available_tools a parameter's
\* default field is the string "REQUIRED" if and only if the parameter has no
\* default value in the registered signature, and the required list that
\* agent_main builds from the manifest alone holds exactly the parameters
\* without a default.
C13_RequiredSentinel ==
    listing # None =>
        LET m == json_loads(listing)
        IN  \A i \in 1..Len(registry) :
              LET sig == registry[i].parameters
                  shown == {k \in 1..Len(sig) : sig[k].name # "db_client"}
              IN  /\ \A k \in shown :
                        /\ Cardinality(ParametersNamed(m[i].parameters,
                                                       sig[k].name)) = 1
                        /\ \A j \in ParametersNamed(m[i].parameters,
                                                     sig[k].name) :
                              (m[i].parameters[j].default = JStr("REQUIRED"))
                                  <=> (sig[k].default = Empty)
                  /\ {required(m[i])[j] : j \in DOMAIN required(m[i])}
                        = {sig[k].name : k \in {x \in shown :
                                                   sig[x].default = Empty}}

C13_Witness ==
    /\ listing # None
    /\ \E i \in 1..Len(registry) :
          /\ \E k \in 1..Len(registry[i].parameters) :
                /\ registry[i].parameters[k].name # "db_client"
                /\ registry[i].parameters[k].default = Empty
          /\ \E k \in 1..Len(registry[i].parameters) :
                registry[i].parameters[k].default = JNull
          /\ Len(required(json_loads(listing)[i])) = 2

----------------------------------------------------------------------------
(* Registering a name again.                                               *)

\* the registry entry the decorator builds
Entry(name, description, func) ==
    [function |-> func, name |-> name, description |-> description,
     parameters |-> Signature(func)]

\* C14: registering a tool under a name that is already registered raises no
\* error (the decorator can always be applied) and replaces the earlier
\* entry: afterwards the registry holds exactly one entry for that name, with
\* the description, parameters and implementation of the latest registration,
\* and the entries of all other names are unchanged.
C14_ReRegistrationOverwrites ==
    /\ [](regs < MaxRegs =>
            \A name \in registered, description \in RegDescriptions,
               func \in RegFunctions :
                ENABLED tool(name, description, func))
    /\ [][\A name \in registered, description \in RegDescriptions,
             func \in RegFunctions :
              tool(name, description, func) =>
                /\ Cardinality(EntriesNamed(registry', name)) = 1
                /\ \A i \in EntriesNamed(registry', name) :
                      registry'[i] = Entry(name, description, func)
                /\ Len(registry') = Len(registry)
                /\ \A n \in registered \ {name} :
                      /\ Cardinality(EntriesNamed(registry', n)) = 1
                      /\ registry'[IndexOf(registry', n)]
                            = registry[IndexOf(registry, n)]]_vars

C14_Witness ==
    /\ Len(registrations) = 3
    /\ registrations[1] = registrations[3]
    /\ registrations[2] # registrations[1]
    /\ Len(registry) = 2
    /\ registry[1].function = Fn("generate_timeseries_chart_data")

----------------------------------------------------------------------------
(* compatible_server.py and minimal_wrapper.py: the session store.         *)

\* the strings str(uuid.uuid4()) can return
UUIDs == {JStr("uuid-" \o ToString(n)) : n \in 1..MaxSessions}

\* a generator that can return a value it has returned before
uuid4_Repeating == UUIDs

\* str(uuid.uuid4()): a random 122-bit value, taken as never returned before
uuid4 == UUIDs \ issued

Created == [created_at |-> "now"]       \* {"created_at": "now"}
Temp == [temp |-> TRUE]                 \* {"temp": True}

\* "sessions = {id: meta}": the store rebound to a new dict
StoreInsert_Rebind(store, id, meta) == [k \in {id} |-> meta]

\* sessions[id] = meta
StoreInsert(store, id, meta) ==
    [k \in DOMAIN store \cup {id} |-> IF k = id THEN meta ELSE store[k]]

\* a or b, on Python values
Or(a, b) == IF Truthy(a) THEN a ELSE b

\* POST /mcp/session of either server module
SessionRequest(server) == [adapter |-> "session", server |-> server]

\* GET /mcp/manifest of compatible_server: the X-Session-ID header, the
\* sessionId query parameter, the session_id cookie
CompatManifestRequest(header, query, cookie) ==
    [adapter |-> "compat_manifest", header |-> header, query |-> query,
     cookie |-> cookie]

\* POST /mcp/invoke of compatible_server: the same three and the body, with
\* its sessionId field when it is an object
CompatInvokeRequest(header, body, sessionId, query, cookie) ==
    [adapter |-> "compat_invoke", header |-> header, body |-> body,
     sessionId |-> sessionId, query |-> query, cookie |-> cookie]

\* header, then cookie, then query parameter
ManifestSessionId_CookieFirst(q) ==
    Or(Or(Get(q.header), Get(q.cookie)), Get(q.query))

\* get_manifest: header or query parameter or cookie
ManifestSessionId(q) == Or(Or(Get(q.header), Get(q.query)), Get(q.cookie))

\* invoke_tool: header or body field or query parameter, where body is {}
\* when request.json() raised; None stands for the AttributeError of
\* body.get on a body that is not an object, reached when the header is
\* absent or empty
InvokeSessionId(q) ==
    IF Truthy(Get(q.header)) THEN Get(q.header)
    ELSE IF q.body = "array" THEN None
    ELSE Or(IF q.body = "object" THEN Get(q.sessionId) ELSE JNull,
            Get(q.query))

\* what the FastMCP app answers to the forwarded request, or that the
\* forwarding raised
Upstream == {[kind |-> "response", status_code |-> 200],
             [kind |-> "response", status_code |-> 404],
             [kind |-> "exception"]}

\* the response relayed from the FastMCP app, or the 500 of the except block
Forwarded(what, u) ==
    IF u.kind = "response"
    THEN [status_code |-> u.status_code,
          content |-> Content([upstream |-> what])]
    ELSE Response(500, [error |-> Msg(what, JStr("forwarding failed"))])

\* the 500 the framework sends for an exception no handler caught
InternalServerError ==
    [status_code |-> 500,
     content |-> [t |-> "plain", text |-> "Internal Server Error"]]

\* POST /mcp/session: no await between uuid4() and the insertion
create_session(r) ==
    /\ pc[r] = "received"
    /\ req[r].adapter = "session"
    /\ Cardinality(issued) < MaxSessions
    /\ \E id \in uuid4 :
          /\ sessions' = [sessions EXCEPT ![req[r].server] =
                              StoreInsert(@, id, Created)]
          /\ issued' = issued \cup {id}
          /\ session_id' = [session_id EXCEPT ![r] = id]
          /\ Finish(r, Response(200, [session_id |-> id]))
    /\ UNCHANGED <<req, tool_func, invoked, result, loop, db, registryVars,
                   appVars, historyVars>>

\* a session-resolving handler from the resolved candidate up to the await
\* of the forwarded request
Resolve(r, candidate) ==
    /\ IF Truthy(candidate)
       THEN /\ session_id' = [session_id EXCEPT ![r] = candidate]
            /\ UNCHANGED <<sessions, issued>>
       ELSE /\ Cardinality(issued) < MaxSessions
            /\ \E id \in uuid4 :
                  /\ sessions' = [sessions EXCEPT !["compatible_server"] =
                                      StoreInsert(@, id, Temp)]
                  /\ issued' = issued \cup {id}
                  /\ session_id' = [session_id EXCEPT ![r] = id]
    /\ pc' = [pc EXCEPT ![r] = "forwarding"]
    /\ UNCHANGED resp

\* GET /mcp/manifest of compatible_server up to "await client.get(...)"
compatible_get_manifest(r) ==
    /\ pc[r] = "received"
    /\ req[r].adapter = "compat_manifest"
    /\ Resolve(r, ManifestSessionId(req[r]))
    /\ UNCHANGED <<req, tool_func, invoked, result, loop, db, registryVars,
                   appVars, historyVars>>

\* POST /mcp/invoke of compatible_server up to "await client.post(...)", or
\* to the uncaught AttributeError
compatible_invoke_tool(r) ==
    /\ pc[r] = "received"
    /\ req[r].adapter = "compat_invoke"
    /\ IF InvokeSessionId(req[r]) = None
       THEN /\ Finish(r, InternalServerError)
            /\ UNCHANGED sessionVars
       ELSE Resolve(r, InvokeSessionId(req[r]))
    /\ UNCHANGED <<req, tool_func, invoked, result, loop, db, registryVars,
                   appVars, historyVars>>

\* the forwarded request completes and the handler relays the outcome
forward(r, u) ==
    /\ pc[r] = "forwarding"
    /\ Finish(r, Forwarded(req[r].adapter, u))
    /\ UNCHANGED <<req, tool_func, invoked, result, loop, db, registryVars,
                   appVars, sessionVars, historyVars>>

\* the identifiers a client can send
HeaderIds == {JAbsent, JStr(""), JStr("from-header"), JStr("uuid-1")}
QueryIds == {JAbsent, JStr(""), JStr("from-query")}
CookieIds == {JAbsent, JStr(""), JStr("from-cookie")}
BodyIds == {JAbsent, JStr(""), JStr("from-body")}

Servers == {"compatible_server", "minimal_wrapper"}

SessionRequests ==
    {SessionRequest(m) : m \in Servers}
        \cup {CompatManifestRequest(h, q, c) :
                h \in HeaderIds, q \in QueryIds, c \in CookieIds}
        \cup {CompatInvokeRequest(h, "object", b, q, c) :
                h \in HeaderIds, b \in BodyIds, q \in QueryIds,
                c \in {JAbsent, JStr("from-cookie")}}
        \cup {CompatInvokeRequest(h, b, JAbsent, q, JAbsent) :
                h \in HeaderIds, b \in {"malformed", "array"},
                q \in {JAbsent, JStr("from-query")}}

\* the concurrent workload: requests without an identifier, one with
ConcSessionRequests ==
    {SessionRequest(m) : m \in Servers}
        \cup {CompatManifestRequest(JAbsent, JAbsent, JAbsent),
              CompatManifestRequest(JStr("uuid-1"), JAbsent, JAbsent),
              CompatInvokeRequest(JAbsent, "object", JAbsent, JAbsent,
                                  JAbsent),
              CompatInvokeRequest(JAbsent, "array", JAbsent, JAbsent,
                                  JAbsent)}

\* one request at a time, every request
NextSession ==
    \/ \E q \in SessionRequests : Receive(1, q)
    \/ create_session(1)
    \/ compatible_get_manifest(1)
    \/ compatible_invoke_tool(1)
    \/ \E u \in Upstream : forward(1, u)
    \/ Close(1)

\* compatible_server is a process of its own: the Motor client of the
\* gateway's tools plays no part in it
InitSession == Init /\ db

SpecSession == InitSession /\ [][NextSession]_vars

\* NumRequests requests in flight
NextSessionConc ==
    \E r \in Tasks :
        \/ \E q \in ConcSessionRequests : Receive(r, q)
        \/ create_session(r)
        \/ compatible_get_manifest(r)
        \/ compatible_invoke_tool(r)
        \/ \E u \in Upstream : forward(r, u)
        \/ Close(r)

SpecSessionConc == InitSession /\ [][NextSessionConc]_vars

----------------------------------------------------------------------------
(* Properties of the session store.                                        *)

IsCreate(r) == req[r] # None /\ req[r].adapter = "session"

\* the identifiers held by the store of either server module
Stored == UNION {DOMAIN sessions[m] : m \in Servers}

\* C15: each call of the session create operation returns an identifier that
\* differs from every identifier returned or stored before, adds exactly one
\* entry for that identifier, with creation metadata, to the session store of
\* the server called, and returns that same identifier to the caller.
C15_CreateIsFresh ==
    [][\A r \in Tasks :
          create_session(r) =>
            LET id == json_loads(resp'[r].content).session_id
                m == req[r].server
            IN  /\ resp'[r].status_code = 200
                /\ id \notin Stored
                /\ id \notin issued
                /\ DOMAIN sessions'[m] = DOMAIN sessions[m] \cup {id}
                /\ sessions'[m][id] = Created
                /\ \A k \in DOMAIN sessions[m] :
                      sessions'[m][k] = sessions[m][k]
                /\ \A o \in Servers \ {m} : sessions'[o] = sessions[o]]_vars

C15_Witness ==
    \E r \in Tasks :
        /\ Done(r) /\ IsCreate(r)
        /\ Body(r).session_id \in DOMAIN sessions[req[r].server]
        /\ Cardinality(DOMAIN sessions[req[r].server]) >= 2

\* r serves a request whose handler resolves a session
IsResolving(r) ==
    req[r] # None /\ req[r].adapter \in {"compat_manifest", "compat_invoke"}

\* the non-empty identifiers the caller has put where the handler of the
\* request q looks for one
SuppliedIds(q) ==
    {v \in IF q.adapter = "compat_manifest"
           THEN {q.header, q.query, q.cookie}
           ELSE {q.header, q.query}
                    \cup (IF q.body = "object" THEN {q.sessionId} ELSE {}) :
        Truthy(Get(v))}

\* C16 as stated: the handler of a session-resolving request, run on a
\* request that supplies a non-empty identifier, uses one as-is and leaves the
\* session store unchanged; run on a request that supplies none, it generates
\* a fresh identifier and adds exactly one new entry, marked temporary.
C16_ResolutionFrame ==
    [][\A r \in Tasks :
          (compatible_get_manifest(r) \/ compatible_invoke_tool(r)) =>
            IF SuppliedIds(req[r]) # {}
            THEN /\ session_id'[r] \in SuppliedIds(req[r])
                 /\ sessions' = sessions
            ELSE /\ session_id'[r] \notin Stored \cup issued \cup {None}
                 /\ DOMAIN sessions'["compatible_server"]
                       = DOMAIN sessions["compatible_server"]
                            \cup {session_id'[r]}
                 /\ sessions'["compatible_server"][session_id'[r]] = Temp
                 /\ \A k \in DOMAIN sessions["compatible_server"] :
                       sessions'["compatible_server"][k]
                         = sessions["compatible_server"][k]
                 /\ sessions'["minimal_wrapper"]
                       = sessions["minimal_wrapper"]]_vars

\* the first non-empty of header, query parameter, cookie of the request q
\* (the cookie's value, or None, when there is none)
HeaderQueryCookie(q) == Or(Or(Get(q.header), Get(q.query)), Get(q.cookie))

\* what one run of a session-resolving handler on task r must do to follow
\* the order header, query parameter, cookie
FollowsHeaderQueryCookie(r) ==
    IF Truthy(HeaderQueryCookie(req[r]))
    THEN /\ session_id'[r] = HeaderQueryCookie(req[r])
         /\ issued' = issued
         /\ sessions' = sessions
    ELSE session_id'[r] \in issued' \ issued

\* C17 as stated: the session identifier of a request, of whichever handler
\* resolves a session, is the first non-empty of the custom header, the query
\* parameter, the cookie, and a new identifier is minted only when all three
\* are absent or empty.
C17_HeaderQueryCookie ==
    [][\A r \in Tasks :
          (compatible_get_manifest(r) \/ compatible_invoke_tool(r)) =>
              FollowsHeaderQueryCookie(r)]_vars

\* C17, amended: on GET /mcp/manifest the session identifier is the first
\* non-empty of the X-Session-ID header, the sessionId query parameter, the
\* session_id cookie, in this order, and a new identifier is minted only when
\* all three are absent or empty.
C17_ManifestHeaderQueryCookie ==
    [][\A r \in Tasks :
          compatible_get_manifest(r) => FollowsHeaderQueryCookie(r)]_vars

C17_Witness ==
    \E r \in Tasks :
        /\ IsResolving(r) /\ req[r].adapter = "compat_manifest"
        /\ pc[r] = "forwarding"
        /\ ~Truthy(Get(req[r].header))
        /\ req[r].query = JStr("")
        /\ session_id[r] = JStr("from-cookie")

\* C18: the session store only grows: in every step, each identifier present
\* in the store of a server module before the step is still present after it
\* with the same metadata; nothing is deleted, expired or overwritten.
C18_StoreOnlyGrows ==
    [][\A m \in Servers :
          \A id \in DOMAIN sessions[m] :
              /\ id \in DOMAIN sessions'[m]
              /\ sessions'[m][id] = sessions[m][id]]_vars

C18_Witness ==
    /\ \E a \in DOMAIN sessions["compatible_server"] :
          sessions["compatible_server"][a] = Created
    /\ \E b \in DOMAIN sessions["compatible_server"] :
          sessions["compatible_server"][b] = Temp
    /\ \A r \in Tasks : pc[r] = "idle"

\* r serves a session-resolving request that carries no identifier
CarriesNoId(r) == IsResolving(r) /\ SuppliedIds(req[r]) = {}

\* C19 as stated: when several requests that carry no session identifier are
\* handled concurrently, under every interleaving each of them, once its
\* handler has finished, has obtained an identifier of its own, held by the
\* store and different from that of every other such request, and once all
\* requests have finished the store holds every identifier that was minted.
C19_ConcurrentMinting ==
    /\ \A a \in Tasks :
          (CarriesNoId(a) /\ Done(a)) =>
              /\ session_id[a] \in DOMAIN sessions["compatible_server"]
              /\ \A b \in Tasks \ {a} :
                    CarriesNoId(b) => session_id[b] # session_id[a]
    /\ (\A r \in Tasks : pc[r] \in {"idle", "done"}) => issued \subseteq Stored

----------------------------------------------------------------------------
(* The JSON-RPC adapter across requests.                                   *)

\* the MCP session of a client: the handshake, discovery and calls, which a
\* client may send in any order
HandshakeRequests ==
    {JsonRpcRequest("object", JStr("initialize"),
                    Params(JAbsent, JAbsent, JStr("2024-11-05")), JInt(7)),
     JsonRpcRequest("object", JStr("notifications/initialized"), JAbsent,
                    JAbsent),
     JsonRpcRequest("object", JStr("tools/list"), JAbsent, JInt(7)),
     JsonRpcRequest("object", JStr("tools/call"),
                    Params(JStr("plot_time_series"), ConcArgs, JAbsent),
                    JInt(7)),
     JsonRpcRequest("object", JStr("tools/call"),
                    Params(JStr("missing_tool"), ConcArgs, JAbsent),
                    JInt(7))}

NextHandshake ==
    \E r \in Tasks :
        \/ \E q \in HandshakeRequests : Receive(r, q)
        \/ mcp_jsonrpc_handler(r)
        \/ \E fetched \in Fetched : fetch_data_as_dataframe(r, fetched)
        \/ \E outcome \in AnyOutcome : tool_return(r, outcome)
        \/ Close(r)

SpecHandshake == Init /\ [][NextHandshake]_vars

IsJsonRpc(r) == req[r] # None /\ req[r].adapter = "jsonrpc"

\* C20: the JSON-RPC adapter keeps no state between requests: of two equal
\* requests the handler makes the same decision (the same implementation is
\* looked up and started, or none), and when the implementation, if one ran,
\* ended the same way, both get the same response, whatever was handled
\* before each of them: with or without initialize and
\* notifications/initialized, and after any order of earlier requests.
C20_Stateless ==
    \A a \in Tasks, b \in Tasks :
        (IsJsonRpc(a) /\ IsJsonRpc(b) /\ req[a] = req[b]
            /\ LookedUp(a) /\ LookedUp(b))
          => /\ tool_func[a] = tool_func[b]
             /\ invoked[a] = invoked[b]
             /\ (Done(a) /\ Done(b) /\ result[a] = result[b])
                   => resp[a] = resp[b]

C20_Witness ==
    \E a \in Tasks, b \in Tasks :
        /\ IsToolsCall(a) /\ IsToolsCall(b) /\ Done(a) /\ Done(b)
        /\ req[a] = req[b] /\ result[a] = result[b]
        /\ invoked[a] # None
        /\ before[a] = {}
        /\ {"initialize", "notifications/initialized"} \subseteq before[b]

----------------------------------------------------------------------------
(* Failures and the rest of the server.                                    *)

\* requests that fail (an unknown tool, a body that is no JSON, an
\* implementation that raises) beside the same tool succeeding and a request to compatible_server, which
\* fills the session store
FaultRequests ==
    {JsonRpcRequest("object", JStr("tools/call"),
                    Params(JStr("plot_time_series"), ConcArgs, JAbsent),
                    JInt(7)),
     JsonRpcRequest("malformed", JAbsent, JAbsent, JAbsent),
     RestRequest("object", JStr("missing_tool"), ConcArgs),
     CompatInvokeRequest(JAbsent, "object", JAbsent, JAbsent, JAbsent)}

NextFault ==
    \E r \in Tasks :
        \/ \E q \in FaultRequests : Receive(r, q)
        \/ mcp_jsonrpc_handler(r)
        \/ invoke_tool(r)
        \/ \E fetched \in Fetched : fetch_data_as_dataframe(r, fetched)
        \/ \E outcome \in AnyOutcome : tool_return(r, outcome)
        \/ compatible_invoke_tool(r)
        \/ \E u \in Upstream : forward(r, u)
        \/ Close(r)

SpecFault == InitSession /\ [][NextFault]_vars

\* a step of the gateway's handlers on behalf of task r
GatewayStep(r) ==
    \/ mcp_jsonrpc_handler(r)
    \/ invoke_tool(r)
    \/ \E fetched \in Fetched : fetch_data_as_dataframe(r, fetched)
    \/ \E outcome \in AnyOutcome : tool_return(r, outcome)

\* a step of any handler on behalf of task r
HandlerStep(r) ==
    \/ GatewayStep(r)
    \/ compatible_invoke_tool(r)
    \/ \E u \in Upstream : forward(r, u)

\* the step leaves every task but r as it was
OthersUntouched(r) ==
    \A t \in Tasks \ {r} :
        /\ pc'[t] = pc[t] /\ req'[t] = req[t] /\ resp'[t] = resp[t]
        /\ tool_func'[t] = tool_func[t] /\ invoked'[t] = invoked[t]
        /\ result'[t] = result[t] /\ session_id'[t] = session_id[t]

\* the request of task r came without an identifier and the handler has
\* stored one for it
AddedEntry(r) ==
    /\ CarriesNoId(r)
    /\ session_id[r] \in DOMAIN sessions["compatible_server"]

\* C21 as stated: a request that ends in an error has left the tool table
\* and the session store exactly as they were before it, whichever handler
\* served it, and no step of a handler touches any other request.
C21_ErrorLeavesStores ==
    /\ [](\A r \in Tasks :
            (Done(r) /\ IsErrorResponse(resp[r])) => ~AddedEntry(r))
    /\ [][\A r \in Tasks :
            HandlerStep(r) =>
                /\ OthersUntouched(r)
                /\ db' = db /\ registry' = registry]_vars

\* C21, amended: a request to the gateway (POST /mcp or POST /mcp/invoke of
\* minimal_wrapper), and so one that ends in an error, leaves the session
\* store and the state the tool table and the tools read exactly as they
\* were at every step it takes, and touches no other request in flight.
C21_GatewayFaultIsContained ==
    [][\A r \in Tasks :
          GatewayStep(r) =>
              /\ OthersUntouched(r)
              /\ sessions' = sessions /\ issued' = issued
              /\ db' = db /\ registry' = registry]_vars

C21_Witness ==
    \E a \in Tasks, b \in Tasks :
        /\ IsJsonRpc(a) /\ Done(a) /\ IsErrorResponse(resp[a])
        /\ result[a] # None
        /\ pc[b] \in {"await_io", "computing"}
        /\ sessions["compatible_server"] # <<>>

----------------------------------------------------------------------------
(* The shape of the responses of the gateway.                              *)

\* the response of task r has a body
HasBody(r) == resp[r].content # None

\* C22: every JSON-RPC response envelope holds exactly one of the members
\* result and error, and so does every body of /mcp/invoke; a tools/call and
\* a /mcp/invoke are never answered without a body.
C22_ResultXorError ==
    \A r \in Tasks :
        (Done(r) /\ req[r].adapter \in {"jsonrpc", "rest"}) =>
            /\ HasBody(r) =>
                  ("result" \in DOMAIN Body(r)) # ("error" \in DOMAIN Body(r))
            /\ ~HasBody(r) =>
                  /\ IsJsonRpc(r)
                  /\ req[r].method = JStr("notifications/initialized")

C22_Witness ==
    \E r \in Tasks :
        /\ Done(r) /\ IsInvoke(r) /\ HasBody(r)
        /\ result[r] # None /\ result[r].t = "raise"
        /\ "error" \in DOMAIN Body(r)
        /\ "result" \notin DOMAIN Body(r)

\* the methods the dispatcher has a branch for
KnownMethods ==
    {JStr("initialize"), JStr("notifications/initialized"),
     JStr("tools/list"), JStr("tools/call")}

\* r serves a POST /mcp whose body is an object with a method member
HasMethod(r) ==
    /\ IsJsonRpc(r)
    /\ req[r].body = "object"
    /\ req[r].method # JAbsent

\* the code of the error member of the JSON-RPC response of r, 0 when the
\* response has no error member
ErrorCode(r) ==
    IF IsJsonRpc(r) /\ HasBody(r) /\ "error" \in DOMAIN Body(r)
    THEN Body(r).error.code
    ELSE 0

\* C23 as stated: a request whose method value is anything other than the
\* four known methods is answered with error code -32601.
C23_OtherMethod ==
    \A r \in Tasks :
        (Done(r) /\ HasMethod(r) /\ req[r].method \notin KnownMethods) =>
            ErrorCode(r) = -32601

\* C23, amended: a request whose method value is non-empty (not null, not
\* "", not 0) and other than the four known methods is answered with error
\* code -32601.
C23_OtherNonEmptyMethod ==
    \A r \in Tasks :
        (/\ Done(r) /\ HasMethod(r)
         /\ req[r].method \notin KnownMethods
         /\ req[r].method \notin {JNull, JStr(""), JInt(0)}) =>
            ErrorCode(r) = -32601

C23_Witness ==
    \E r \in Tasks :
        /\ Done(r) /\ HasMethod(r)
        /\ req[r].method = JInt(7)
        /\ req[r].params = JList
        /\ ErrorCode(r) = -32601

\* C24: a POST /mcp whose body is not well-formed JSON is answered with
\* error code -32700 and HTTP status 400, and no tool is looked up or
\* invoked for it.
C24_ParseError ==
    \A r \in Tasks :
        (Done(r) /\ IsJsonRpc(r) /\ req[r].body \in NoJsonBodies) =>
            /\ resp[r].status_code = 400
            /\ ErrorCode(r) = -32700
            /\ tool_func[r] = None /\ invoked[r] = None /\ result[r] = None

\* C26: in the JSON-RPC handler -32602 and -32601 travel with HTTP 200, and
\* so does the -32603 of an implementation that raised; HTTP 400 is sent
\* exactly with -32600 and -32700, and HTTP 500 exactly with the -32603 of
\* a fault outside the call of the implementation.
C26_StatusOfError ==
    \A r \in Tasks :
        (Done(r) /\ IsJsonRpc(r) /\ HasBody(r)) =>
            /\ resp[r].status_code \in {200, 400, 500}
            /\ ErrorCode(r) \in {-32602, -32601} => resp[r].status_code = 200
            /\ result[r] # None /\ result[r].t = "raise" =>
                  /\ ErrorCode(r) = -32603
                  /\ resp[r].status_code = 200
            /\ resp[r].status_code = 400 <=> ErrorCode(r) \in {-32600, -32700}
            /\ resp[r].status_code = 500 <=>
                  (ErrorCode(r) = -32603 /\ result[r] = None)
            /\ ErrorCode(r) = 0 => resp[r].status_code = 200

C26_Witness ==
    \E r \in Tasks :
        /\ Done(r) /\ IsJsonRpc(r) /\ HasBody(r)
        /\ ErrorCode(r) = -32603
        /\ resp[r].status_code = 500
        /\ req[r].body = "object"
        /\ req[r].method = JStr("tools/call")
        /\ result[r] = None

----------------------------------------------------------------------------
(* The manifest across a second registration of a name.                    *)

\* the names of the parameters of func that a manifest shows
ShownNames(func) ==
    LET shown == SelectSeq(Signature(func), LAMBDA p : p.name # "db_client")
    IN  [j \in 1..Len(shown) |-> shown[j].name]

\* C29: when a name is registered again, its manifest entry keeps the
\* position it had (that of the first registration of the name) and shows
\* the description and the parameters of the latest registration; every
\* other entry stays where it was, so their relative order is unchanged.
C29_ManifestKeepsPosition ==
    [][(regs' = regs + 1 /\ registrations'[Len(registrations')] \in registered)
        => LET name == registrations'[Len(registrations')]
               others == registered \ {name}
               old == ManifestTools(registry)
               new == ManifestTools(registry')
               at == IndexOf(old, name)
               entry == new[at]
               shown == [j \in 1..Len(entry.parameters) |->
                            entry.parameters[j].name]
           IN  /\ at > 0
               /\ Len(new) = Len(old)
               /\ entry.name = name
               /\ EntriesNamed(new, name) = {at}
               /\ \A description \in RegDescriptions, func \in RegFunctions :
                      tool(name, description, func) =>
                          /\ entry.description = description
                          /\ shown = ShownNames(func)
               /\ \A n \in others : IndexOf(new, n) = IndexOf(old, n)]_vars

C29_Witness ==
    /\ listing # None
    /\ Len(registrations) = 4
    /\ registrations[2] = registrations[4]
    /\ Cardinality({registrations[i] : i \in 1..3}) = 3
    /\ LET m == json_loads(listing)
       IN  /\ Len(m) = 3
           /\ m[2].name = registrations[4]
           /\ m[2].description = "Ranks lanes by a metric"
           /\ Len(m[2].parameters) = 4

----------------------------------------------------------------------------
(* compatible_server.py: the identifier of POST /mcp/invoke.               *)

\* the first non-empty of the X-Session-ID header, the sessionId field of
\* the body (a body that is no object has no such field), the sessionId
\* query parameter; the cookie plays no part
HeaderBodyQuery(q) ==
    Or(Or(Get(q.header),
          IF q.body = "object" THEN Get(q.sessionId) ELSE JNull),
       Get(q.query))

\* C28: on POST /mcp/invoke of compatible_server the identifier is the first
\* non-empty of header, body field and query parameter, whatever the cookie
\* holds and with an unparsable body read as an empty object; a request with
\* none of them gets a newly minted identifier; and that identifier is the
\* one the request is forwarded with.
C28_InvokeHeaderBodyQuery ==
    [][\A r \in Tasks :
          compatible_invoke_tool(r) =>
              /\ pc'[r] = "forwarding"
              /\ IF Truthy(HeaderBodyQuery(req[r]))
                 THEN /\ session_id'[r] = HeaderBodyQuery(req[r])
                      /\ sessions' = sessions
                 ELSE /\ session_id'[r] \in UUIDs \ issued
                      /\ session_id'[r]
                            \in DOMAIN sessions'["compatible_server"]]_vars

----------------------------------------------------------------------------
(* tools.py json_encoder and toolbox_async.py json_serializer: the         *)
(* "default" hooks of json.dumps.                                          *)

\* the kinds of value a result document can hold
ValueKinds ==
    {"str", "ObjectId", "np.integer", "np.floating", "np.ndarray",
     "datetime", "pd.Timestamp", "time", "Decimal128"}

\* json.dumps encodes these itself and never calls the hook for them
Native(obj) == obj = "str"

Converted(to) == [t |-> "converted", to |-> to]

\* tools.py json_encoder; pd.Timestamp is a subclass of datetime
json_encoder(obj) ==
    CASE obj = "ObjectId" -> Converted("str")
      [] obj = "np.integer" -> Converted("int")
      [] obj = "np.floating" -> Converted("float")
      [] obj = "np.ndarray" -> Converted("list")
      [] obj \in {"datetime", "pd.Timestamp"} -> Converted("str")
      [] OTHER -> Raise("TypeError")

\* toolbox_async.py json_serializer
json_serializer(obj) ==
    IF obj \in {"datetime", "pd.Timestamp", "time"}
    THEN Converted("str")
    ELSE Raise("TypeError")

\* an encoder that leaves out what it cannot convert, like skipkeys does
\* for keys
Dumps_DropsValue(document, obj, hooked) == Return(json_dumps(document))

\* json.dumps(document, default=hook) on a document that holds a value of
\* the kind obj, where hooked is what hook(obj) gives: the text, or the
\* exception the hook raised
Dumps(document, obj, hooked) ==
    IF Native(obj) \/ hooked.t = "converted"
    THEN Return(json_dumps(document))
    ELSE hooked

\* the tools of tools.py that end in json.dumps(..., default=json_encoder)
EncoderTools ==
    {"get_daily_traffic_profile", "get_descriptive_stats",
     "aggregate_time_series"}

\* the document such a tool has built when it reaches that line
ResultDocument(f) ==
    CASE f.name = "get_daily_traffic_profile" -> Doc("profile", "int")
      [] f.name = "get_descriptive_stats" -> Doc("stats", "str")
      [] f.name = "aggregate_time_series" -> Doc("series", "str")

\* the tool of task r reaches "return json.dumps(..., default=json_encoder)"
\* with a document that holds a value of the kind obj
json_dumps_result(r, obj) ==
    /\ pc[r] = "computing"
    /\ loop = {r}
    /\ tool_func[r].name \in EncoderTools
    /\ LET outcome == Dumps(ResultDocument(tool_func[r]), obj,
                            json_encoder(obj))
       IN  /\ Finish(r, ToolResponse(req[r], outcome))
           /\ result' = [result EXCEPT ![r] = outcome]
    /\ held' = [held EXCEPT ![r] = obj]
    /\ loop' = {}
    /\ UNCHANGED <<req, tool_func, invoked, db, registryVars, sessionVars,
                   historyVars, routes, returned, sent>>

----------------------------------------------------------------------------
(* fastmcp_async.py MCPApplication and launch_new_server.py.               *)

\* _toolbox_registry once toolbox_async has been imported (two of its tools)
ImportedToolbox ==
    <<Entry("get_lanes_by_metric", "Ranks lanes by a metric",
            Fn("get_lanes_by_metric")),
      Entry("generate_timeseries_chart_data", "Chart-ready labels",
            Fn("generate_timeseries_chart_data"))>>

\* @self.app.post(path): the router takes the first route that matches
RouteAdd(rts, path, func) ==
    IF path \in DOMAIN rts
    THEN rts
    ELSE [k \in DOMAIN rts \cup {path} |-> IF k = path THEN func ELSE rts[k]]

\* MCPApplication.tool(name)(func): the wrapper is registered at
\* /tools{name} and the original function is returned
MCPApplication_tool(rts, name, func) ==
    [routes |-> RouteAdd(rts, "/tools" \o name, func), returned |-> func]

\* one round of the loop of launch_new_server over _toolbox_registry.items()
launch_new_server ==
    /\ Len(returned) < Len(registry)
    /\ LET tool_data == registry[Len(returned) + 1]
           endpoint == "/" \o tool_data.name
           decorated == MCPApplication_tool(routes, endpoint,
                                            tool_data.function)
       IN  /\ routes' = decorated.routes
           /\ returned' = Append(returned, decorated.returned)
    /\ UNCHANGED <<gatewayVars, registryVars, sessionVars, historyVars,
                   held, sent>>

\* the loop has ended and "app = server.app" is being served
Launched == Len(returned) = Len(registry)

\* POST /tools<...> with the body {"tool_name": ..., "parameters": ...}
AppRequest(path, tool_name, parameters) ==
    [adapter |-> "app", path |-> path, tool_name |-> tool_name,
     parameters |-> parameters]

\* class ToolRequest(BaseModel): tool_name: str, parameters: dict
ToolRequestValid(q) == q.tool_name.t = "str" /\ IsDict(q.parameters)

\* func(db_client=self.db_client, **request.parameters) binds
AppBinds(f, parameters) ==
    LET own == {Signature(f)[j] : j \in 1..Len(Signature(f))}
        names == {p.name : p \in {x \in own : x.name # "db_client"}}
        needed == {p.name : p \in {x \in own : x.name # "db_client"
                                               /\ x.default = Empty}}
    IN  needed \subseteq parameters.keys /\ parameters.keys \subseteq names

\* a wrapper that picks the function by the tool_name of the body when a
\* route of that name exists
AppLookup_ByToolName(q) ==
    IF ("/tools/" \o q.tool_name.s) \in DOMAIN routes
    THEN routes["/tools/" \o q.tool_name.s]
    ELSE routes[q.path]

\* the func of the closure of the wrapper the router selected for the path
AppLookup(q) == routes[q.path]

\* raise HTTPException(status_code=500, detail=str(e))
AppError(e) == Response(500, [detail |-> e.message])

\* "return json.loads(result_json_str)", or the except block
AppResponse(outcome) ==
    IF outcome.t = "return"
    THEN Response(200, json_loads(outcome.value))
    ELSE AppError(outcome)

\* the request of task r reaches the application: routing, validation of the
\* body, then the wrapper up to the first await inside func
wrapper(r) ==
    /\ pc[r] = "received"
    /\ req[r].adapter = "app"
    /\ Launched
    /\ IF req[r].path \notin DOMAIN routes
       THEN /\ Finish(r, Response(404, [detail |-> JStr("Not Found")]))
            /\ UNCHANGED <<tool_func, invoked, result>>
       ELSE IF ~ToolRequestValid(req[r])
       THEN /\ Finish(r, Response(422, [detail |-> JStr("validation")]))
            /\ UNCHANGED <<tool_func, invoked, result>>
       ELSE IF ~AppBinds(AppLookup(req[r]), req[r].parameters)
       THEN /\ Finish(r, AppError(Raise("TypeError")))
            /\ tool_func' = [tool_func EXCEPT ![r] = AppLookup(req[r])]
            /\ result' = [result EXCEPT ![r] = Raise("TypeError")]
            /\ UNCHANGED invoked
       ELSE /\ pc' = [pc EXCEPT ![r] = "app_await"]
            /\ tool_func' = [tool_func EXCEPT ![r] = AppLookup(req[r])]
            /\ invoked' = [invoked EXCEPT ![r] = AppLookup(req[r])]
            /\ UNCHANGED <<result, resp>>
    /\ UNCHANGED <<req, loop, db, registryVars, sessionVars, historyVars,
                   appVars>>

\* how a toolbox function ends: an early "no data" return, an exception of
\* the driver, or json.dumps(..., default=json_serializer) on a document
\* holding a value of some kind
ToolboxEnds ==
    {[at |-> "no_rows", held |-> NoValue],
     [at |-> "raised", held |-> NoValue]}
        \cup {[at |-> "dumps", held |-> obj] : obj \in ValueKinds}

ToolboxOutcome(end) ==
    CASE end.at = "no_rows" -> Return(json_dumps(Doc("message", "str")))
      [] end.at = "raised" -> Raise("ServerSelectionTimeoutError")
      [] end.at = "dumps" -> Dumps(Doc("data", "str"), end.held,
                                   json_serializer(end.held))

\* the awaited func returns or raises and the wrapper answers
toolbox_return(r, end) ==
    /\ pc[r] = "app_await"
    /\ Finish(r, AppResponse(ToolboxOutcome(end)))
    /\ result' = [result EXCEPT ![r] = ToolboxOutcome(end)]
    /\ held' = [held EXCEPT ![r] = end.held]
    /\ UNCHANGED <<req, tool_func, invoked, loop, db, registryVars,
                   sessionVars, historyVars, routes, returned, sent>>

\* the state once toolbox_async has been imported and before the loop of
\* launch_new_server
InitApp ==
    /\ GatewayInit /\ db
    /\ SessionInit /\ HistoryInit /\ AppInit
    /\ registry = ImportedToolbox
    /\ listing = None
    /\ regs = Len(ImportedToolbox)
    /\ registered = {ImportedToolbox[i].name : i \in 1..Len(ImportedToolbox)}
    /\ registrations = [i \in 1..Len(ImportedToolbox) |->
                           ImportedToolbox[i].name]

AppPaths ==
    {"/tools/get_lanes_by_metric", "/tools/generate_timeseries_chart_data",
     "/tools/get_busiest_lanes"}

AppToolNames ==
    {JStr("get_lanes_by_metric"), JStr("get_busiest_lanes_by_occupancy"),
     JNull}

AppParameters == {JDict({"metric"}), JDict({"metric", "ids"})}

AppRequests ==
    {AppRequest(p, n, a) :
        p \in AppPaths, n \in AppToolNames, a \in AppParameters}

NextApp ==
    \/ launch_new_server
    \/ \E r \in Tasks :
          \/ \E q \in AppRequests : Receive(r, q)
          \/ wrapper(r)
          \/ \E end \in ToolboxEnds : toolbox_return(r, end)
          \/ Close(r)

SpecApp == InitApp /\ [][NextApp]_vars

\* r serves a request to the MCPApplication server
IsApp(r) == req[r] # None /\ req[r].adapter = "app"

\* the request of r has been through routing, validation and the lookup
Routed(r) == IsApp(r) /\ pc[r] \in {"app_await", "done"}

\* a and b went to the same path with equal parameters
SamePathAndParameters(a, b) ==
    /\ Routed(a) /\ Routed(b)
    /\ req[a].path = req[b].path
    /\ req[a].parameters = req[b].parameters

\* what holds of every two such requests when tool_name has no effect: the
\* same function runs, and equal ends of the function give equal responses
SameFunctionAndOutcome(a, b) ==
    /\ tool_func[a] = tool_func[b]
    /\ (Done(a) /\ Done(b) /\ result[a] = result[b]) => resp[a] = resp[b]

\* the function that runs is the one registered for the path, and the
\* decorator returned each function it was given
RegisteredForPath ==
    /\ \A r \in Tasks :
          (Routed(r) /\ tool_func[r] # None) =>
              \E i \in 1..Len(returned) :
                  /\ req[r].path = "/tools/" \o registry[i].name
                  /\ tool_func[r] = registry[i].function
    /\ \A i \in 1..Len(returned) : returned[i] = registry[i].function

\* C27 as stated: the function executed for POST /tools/<path> is the one
\* registered for the path, the decorator returns the original function, and
\* two requests to the same path with equal parameters and different
\* tool_name values run the same function with the same outcome.
C27_ToolNameHasNoEffect ==
    /\ RegisteredForPath
    /\ \A a \in Tasks, b \in Tasks :
          SamePathAndParameters(a, b) => SameFunctionAndOutcome(a, b)

\* C27, amended: the same, for tool_name values that are strings; a request
\* whose tool_name is not a string runs no function.
C27_ToolNameStringHasNoEffect ==
    /\ RegisteredForPath
    /\ \A a \in Tasks, b \in Tasks :
          (/\ SamePathAndParameters(a, b)
           /\ req[a].tool_name.t = "str" /\ req[b].tool_name.t = "str")
              => SameFunctionAndOutcome(a, b)
    /\ \A r \in Tasks :
          (Routed(r) /\ req[r].tool_name.t # "str") => tool_func[r] = None

C27_Witness ==
    \E a \in Tasks, b \in Tasks :
        /\ SamePathAndParameters(a, b)
        /\ req[a].path = "/tools/generate_timeseries_chart_data"
        /\ req[a].tool_name = JStr("get_lanes_by_metric")
        /\ req[b].tool_name = JStr("get_busiest_lanes_by_occupancy")
        /\ Done(a) /\ Done(b)
        /\ invoked[a] = Fn("generate_timeseries_chart_data")
        /\ invoked[b] = invoked[a]
        /\ result[a] = result[b] /\ result[a].t = "return"
        /\ resp[a] = resp[b] /\ resp[a].status_code = 200

----------------------------------------------------------------------------
(* Values the serializers cannot convert.                                  *)

\* tools/call and /mcp/invoke of a tool that ends in json.dumps with the
\* json_encoder hook, and a call of a toolbox function, which ends in
\* json.dumps with the json_serializer hook
EncodeRequests ==
    {JsonRpcRequest("object", JStr("tools/call"),
                    Params(JStr("get_descriptive_stats"), ConcArgs, JAbsent),
                    JInt(7)),
     RestRequest("object", JStr("get_descriptive_stats"), ConcArgs),
     AppRequest("/tools/get_lanes_by_metric", JStr("get_lanes_by_metric"),
                JDict({"metric"}))}

NextEncode ==
    \/ launch_new_server
    \/ \E r \in Tasks :
          \/ \E q \in EncodeRequests : Receive(r, q)
          \/ mcp_jsonrpc_handler(r)
          \/ invoke_tool(r)
          \/ \E fetched \in Fetched : fetch_data_as_dataframe(r, fetched)
          \/ \E obj \in ValueKinds : json_dumps_result(r, obj)
          \/ wrapper(r)
          \/ \E end \in ToolboxEnds : toolbox_return(r, end)
          \/ Close(r)

SpecEncode == InitApp /\ [][NextEncode]_vars

\* the kinds of value neither json.dumps nor the hook in use for the request
\* of r converts: json_encoder for the gateway's tools, json_serializer for
\* the toolbox
NoConversion(r) ==
    IF IsApp(r)
    THEN ValueKinds \ {"str", "datetime", "pd.Timestamp", "time"}
    ELSE {"time", "Decimal128"}

\* the response of r reports a failed invocation, in the way of its adapter
ReportsFailure(r) ==
    /\ HasBody(r)
    /\ "result" \notin DOMAIN Body(r)
    /\ IsJsonRpc(r) => ErrorCode(r) = -32603
    /\ IsInvoke(r) =>
          resp[r].status_code = 500 /\ "error" \in DOMAIN Body(r)
    /\ IsApp(r) =>
          resp[r].status_code = 500 /\ "detail" \in DOMAIN Body(r)

\* C25: when the document a tool returns holds a value the serializer has no
\* conversion for, the serializer raises and the adapter reports the
\* invocation as failed (-32603 for JSON-RPC, HTTP 500 for REST): a response
\* is written, and it carries no result, so the value is neither dropped
\* nor altered; every other value is serialized and the result delivered.
C25_UnconvertibleIsReported ==
    \A r \in Tasks :
        (Done(r) /\ held[r] # NoValue) =>
            IF held[r] \in NoConversion(r)
            THEN /\ result[r] = Raise("TypeError")
                 /\ ReportsFailure(r)
            ELSE /\ result[r].t = "return"
                 /\ resp[r].status_code = 200
                 /\ HasBody(r)

C25_Witness ==
    \E a \in Tasks, b \in Tasks :
        /\ Done(a) /\ IsJsonRpc(a) /\ held[a] = "Decimal128"
        /\ ErrorCode(a) = -32603 /\ resp[a].status_code = 200
        /\ Done(b) /\ IsInvoke(b) /\ held[b] = "time"
        /\ resp[b].status_code = 500

----------------------------------------------------------------------------
(* api_tool_caller.py: call_api_tool.                                      *)

\* call_api_tool(endpoint, tool_name, params)
ApiCall(endpoint, tool_name, params) ==
    [adapter |-> "api_call", endpoint |-> endpoint, tool_name |-> tool_name,
     params |-> params]

\* the calls made by get_busiest_lanes, get_lanes_with_most_traffic,
\* get_total_vehicles_entered and agent_main.get_tools_from_server
ApiCalls ==
    {ApiCall("/get_busiest_lanes", "get_busiest_lanes_by_occupancy",
             JDict({"top_n"})),
     ApiCall("/get_lanes_with_most_traffic", "get_lanes_with_most_traffic",
             JDict({"top_n"})),
     ApiCall("/get_total_vehicles_entered", "get_total_vehicles_entered",
             JDict({})),
     ApiCall("/list_available_tools", "list_available_tools", JDict({}))}

\* how "await client.post(url, json=payload, timeout=20.0)" can end: the
\* connection fails, the 20 s pass (both are httpx.RequestError), or the
\* server answers
HttpOutcomes ==
    {[kind |-> "ConnectError", status_code |-> 0, text |-> None],
     [kind |-> "ReadTimeout", status_code |-> 0, text |-> None]}
        \cup {[kind |-> "response", status_code |-> c,
               text |-> JText([body |-> c])] : c \in {200, 404, 422, 500}}

\* json.dumps({"error": error_message})
ApiError(text, e) == Content([error |-> Msg(text, JStr(e))])

\* a caller that leaves out response.raise_for_status()
ApiReturn_NoStatusCheck(o) ==
    IF o.kind = "response"
    THEN o.text
    ELSE ApiError("API call to %s failed: ", o.kind)

\* the string call_api_tool returns: response.text, or the error document
\* of "except httpx.RequestError", or that of "except Exception", which
\* catches the HTTPStatusError of raise_for_status()
ApiReturn(o) ==
    IF o.kind = "response"
    THEN IF o.status_code >= 400
         THEN ApiError("An unexpected error occurred during the API call: ",
                       "HTTPStatusError")
         ELSE o.text
    ELSE ApiError("API call to %s failed: ", o.kind)

\* call_api_tool up to "await client.post(...)": the one request is sent
call_api_tool(r) ==
    /\ pc[r] = "received"
    /\ req[r].adapter = "api_call"
    /\ pc' = [pc EXCEPT ![r] = "posting"]
    /\ sent' = [sent EXCEPT ![r] = @ + 1]
    /\ UNCHANGED <<req, tool_func, invoked, result, resp, loop, db,
                   registryVars, sessionVars, historyVars, routes, returned,
                   held>>

\* the post ends with o (kept in resp) and call_api_tool returns
post_completes(r, o) ==
    /\ pc[r] = "posting"
    /\ Finish(r, o)
    /\ result' = [result EXCEPT ![r] = Return(ApiReturn(o))]
    /\ UNCHANGED <<req, tool_func, invoked, loop, db, registryVars,
                   sessionVars, historyVars, appVars>>

NextClient ==
    \E r \in Tasks :
        \/ \E q \in ApiCalls : Receive(r, q)
        \/ call_api_tool(r)
        \/ \E o \in HttpOutcomes : post_completes(r, o)
        \/ Close(r)

\* the agent is a process of its own
InitClient == Init /\ db

SpecClient == InitClient /\ [][NextClient]_vars

IsApiCall(r) == req[r] # None /\ req[r].adapter = "api_call"

\* C30: call_api_tool never raises: whatever the HTTP request does, it
\* returns a string, which is the body of the response when the server
\* answers with a success status and a JSON object with the single member
\* error when the connection fails, the request times out, or the server
\* answers 4xx or 5xx; and it sends exactly one request, never a second.
C30_CallNeverRaises ==
    \A r \in Tasks :
        IsApiCall(r) =>
            /\ sent[r] = IF pc[r] \in {"posting", "done"} THEN 1 ELSE 0
            /\ Done(r) =>
                  /\ result[r].t = "return"
                  /\ result[r].value.t = "text"
                  /\ IF resp[r].kind = "response"
                        /\ resp[r].status_code \in 200..299
                     THEN result[r].value = resp[r].text
                     ELSE DOMAIN json_loads(result[r].value) = {"error"}

C30_Witness ==
    \E a \in Tasks, b \in Tasks :
        /\ IsApiCall(a) /\ Done(a) /\ sent[a] = 1
        /\ resp[a].kind = "response" /\ resp[a].status_code = 404
        /\ DOMAIN json_loads(result[a].value) = {"error"}
        /\ IsApiCall(b) /\ Done(b) /\ sent[b] = 1
        /\ resp[b].kind = "ReadTimeout"
        /\ result[b].t = "return"

====
